---- MODULE Spec2Model ----
(***************************************************************************)
(* Model of mcp_server_image_selector: the GUI controller                  *)
(* (gui.py / server.py ImageSelectorGUI), the exporter (export.py /         *)
(* server.py export_regions) and the select-and-export flow of the         *)
(* protocol adapter (server.py call_tool).                                  *)
(*                                                                         *)
(* Conventions                                                             *)
(*   - Python None is None (the empty tuple) for tuples and NoRect (0) for *)
(*     canvas item ids; the code only tests ids for truthiness and Tk ids  *)
(*     start at 1.                                                          *)
(*   - current_image_index is the 0-based Python index; Cur is the         *)
(*     matching 1-based position in the TLA+ sequence images_data.          *)
(*   - A path is a record [dir, stem, ext]; os.path.basename/splitext      *)
(*     become field selections.                                            *)
(*   - The canvas holds the rectangle items only.  Tk never reuses an item *)
(*     id and the program never compares ids: it only hands them back to   *)
(*     canvas.delete and canvas.itemconfig, which ignore the id of a       *)
(*     deleted item.  So an id whose item has been deleted is written Gone *)
(*     wherever the controller still remembers it (Stale, StaleAll), and a *)
(*     new item gets the smallest id not drawn (FreshId): the same states  *)
(*     up to the renaming of ids.                                          *)
(*   - Stroke colours, status bar texts and the image list box are left    *)
(*     out: no handler reads them back.                                     *)
(***************************************************************************)
EXTENDS Integers, Sequences, FiniteSets, TLC

(***************************************************************************)
(* Bounds of the model                                                     *)
(***************************************************************************)
MaxImages == 2
MaxRegions == 2
MaxExportRegions == 2
MaxClock == 1
MaxCoord == 7
MaxScaleNum == 4
MaxDim == 6
MaxPerKind == 2
MaxCleanups == 2

(***************************************************************************)
(* Program constants                                                       *)
(***************************************************************************)
MinDragSize == 5
FallbackCanvasWidth == 1600
FallbackCanvasHeight == 1280

None == <<>>
NoRect == 0
Gone == -1

Modes == {"foto", "text"}
Angles == {90, -90, 180}

(***************************************************************************)
(* The files of the environment                                            *)
(***************************************************************************)
PathA == [dir |-> "in", stem |-> "a", ext |-> "png"]
PathB == [dir |-> "in", stem |-> "b", ext |-> "jpg"]
PathBad == [dir |-> "in", stem |-> "bad", ext |-> "png"]
PathMissing == [dir |-> "in", stem |-> "missing", ext |-> "jpg"]
\* relative paths: "a.png" and "missing.jpg"
PathRelA == [dir |-> "", stem |-> "a", ext |-> "png"]
PathRelMissing == [dir |-> "", stem |-> "missing", ext |-> "jpg"]
\* the working directory (IMAGE_SELECTOR_WORKING_DIR, or the current one)
WorkingDir == "in"
\* PDF files: one whose first page embeds an image, one without embedded
\* image, one with zero pages, and a path that is no readable PDF
PdfPaths == {[dir |-> "in", stem |-> n, ext |-> "pdf"] :
                n \in {"scan", "plain", "empty", "missing"}}
PathPdfEmpty == [dir |-> "in", stem |-> "empty", ext |-> "pdf"]
PathPdfScan == [dir |-> "in", stem |-> "scan", ext |-> "pdf"]

\* a file left in the temp directory by an earlier session
OldFile == [base |-> "old", ts |-> 0, nn |-> <<0, 1>>, mode |-> "foto", ext |-> "png"]
\* the path of that file: a region exported by an earlier session, given as
\* the input of this one
PathOld == [dir |-> "tmp", stem |-> "old", ext |-> "png", entry |-> OldFile]
\* the directory entry a path inside the temp directory names
DirEntry(p) == IF "entry" \in DOMAIN p THEN p.entry ELSE p

\* files that exist on disk outside the temp directory, and those among them
\* PIL can decode
ExistingPaths == {PathA, PathB, PathBad, PathPdfEmpty, PathPdfScan}
ReadablePaths == {PathA, PathB}
AllPaths == ExistingPaths \cup {PathMissing}
\* the image_path arguments the session is started with (None: no argument)
FirstPaths ==
    {PathA, PathBad, PathMissing, PathRelA, PathRelMissing, PathPdfEmpty, PathOld,
     <<>>}
\* the files the user picks in the "add image" dialog
AddPaths == {PathB, PathBad, PathPdfEmpty, <<>>}

\* pixel dimensions of the decodable files
ImageSize(p) == IF p = PathA THEN <<40, 10>> ELSE <<8, 8>>

\* sizes winfo_width/winfo_height report
CanvasSizes == {<<20, 10>>}

\* canvas coordinates the pointer events carry: where the button goes down,
\* and where the pointer is dragged to and released.  From (6,6) the first
\* drag point spans 6x6 leftwards and downwards, the second spans 5x6.
DownPoints == {<<6, 6>>}
DragPoints == {<<0, 12>>, <<1, 12>>}


VARIABLES
    pc,                  \* idle, gui (mainloop), headless, export, done; caller, returned
    create_ui,           \* ImageSelectorGUI.create_ui
    images_data,         \* ImageSelectorGUI.images_data
    current_image_index, \* ImageSelectorGUI.current_image_index (0-based)
    result_ready,        \* ImageSelectorGUI.result_ready
    image,               \* ImageSelectorGUI.image is set (display buffer)
    start,               \* (start_x, start_y) or None
    pointer,             \* where the pointer is while button 1 is held, else None
    current_rect,        \* ImageSelectorGUI.current_rect
    current_selection,   \* ImageSelectorGUI.current_selection
    selection_mode,      \* ImageSelectorGUI.selection_mode
    canvas,              \* rectangle items drawn on the Tk canvas
    region_listbox,      \* entries of the region list box
    canvas_size,         \* what winfo_width/winfo_height report
    tmp_files,           \* names of the files in the temp directory
    file_text,           \* what the text files in the temp directory hold
    tmp_exists,          \* the temp directory exists
    opened,              \* paths handed to Image.open by the exporter
    clock,               \* datetime.now(), in seconds
    export_idx,          \* position of call_tool's loop over images_data
    all_exported_files,  \* call_tool's all_exported_files
    total_exported,      \* call_tool's total_exported
    response,            \* text answer of call_tool
    ret,                 \* what run() returned; the record of a direct export call
    last                 \* the handler that ran last, and what it found

vars == <<pc, create_ui, images_data, current_image_index, result_ready, image,
          start, pointer, current_rect, current_selection, selection_mode,
          canvas, region_listbox, canvas_size, tmp_files, file_text, tmp_exists, opened, clock,
          export_idx, all_exported_files, total_exported, response, ret, last>>

guiVars == <<create_ui, images_data, current_image_index, result_ready, image,
             start, pointer, current_rect, current_selection, selection_mode,
             canvas, region_listbox, canvas_size>>

flowVars == <<export_idx, all_exported_files, total_exported, response>>

(***************************************************************************)
(* Arithmetic helpers                                                      *)
(***************************************************************************)
Min(a, b) == IF a <= b THEN a ELSE b
Max(a, b) == IF a >= b THEN a ELSE b
Abs(a) == IF a >= 0 THEN a ELSE -a

RECURSIVE Gcd(_, _)
Gcd(a, b) == IF b = 0 THEN a ELSE Gcd(b, a % b)

\* a non-negative rational <<numerator, denominator>> in lowest terms
Rat(n, d) == LET g == Gcd(n, d) IN IF g = 0 THEN <<n, d>> ELSE <<n \div g, d \div g>>
RatLeq(p, q) == p[1] * q[2] <= q[1] * p[2]
RatMin(p, q) == IF RatLeq(p, q) THEN p ELSE q

\* floor division in the place of int()
Trunc_Floor(a, b) == a \div b

\* Python int(): truncation toward zero of a / b, b > 0
Trunc(a, b) == IF a >= 0 THEN a \div b ELSE -((-a) \div b)

\* the cap that never upscales
ScaleCap_One == Rat(1, 1)

ScaleCap == Rat(5, 4)

ComputeScale(img_width, img_height, canvas_width, canvas_height) ==
    IF img_width <= 0 \/ img_height <= 0
    THEN Rat(1, 1)
    ELSE RatMin(RatMin(Rat(canvas_width, img_width), Rat(canvas_height, img_height)),
                ScaleCap)

\* server.py ImageSelectorGUI.compute_scale lines 152-160: the copy in the
\* server module, capped at 1.25 as well
ServerComputeScale(img_width, img_height, canvas_width, canvas_height) ==
    IF img_width <= 0 \/ img_height <= 0
    THEN Rat(1, 1)
    ELSE RatMin(RatMin(Rat(canvas_width, img_width), Rat(canvas_height, img_height)),
                Rat(5, 4))

TransformRaises(scale_factor) == scale_factor[1] = 0

TransformCoords(coords, scale_factor) ==
    [k \in 1..4 |-> Trunc(coords[k] * scale_factor[2], scale_factor[1])]

(***************************************************************************)
(* Accessors of the current image entry                                    *)
(***************************************************************************)
\* mouse button 1 is held down over the canvas
pressed == pointer # None

Cur == current_image_index + 1
regions == images_data[Cur].regions
original_image == images_data[Cur].original_image

TotalRegions(data) ==
    LET RECURSIVE Sum(_)
        Sum(k) == IF k = 0 THEN 0 ELSE Len(data[k].regions) + Sum(k - 1)
    IN Sum(Len(data))

\* the id canvas.create_rectangle returns on canvas cv
FreshId(cv) == CHOOSE n \in 1..(Cardinality(cv) + 1) :
                   /\ n \notin {it.id : it \in cv}
                   /\ \A m \in 1..(n - 1) : m \in {it.id : it \in cv}

\* a remembered id, as written once the canvas is cv
Stale(id, cv) ==
    IF id = NoRect THEN NoRect
    ELSE IF \E it \in cv : it.id = id THEN id ELSE Gone

\* the image entries with the remembered ids as written once the canvas is cv
StaleAll(data, cv) ==
    [k \in 1..Len(data) |->
        [data[k] EXCEPT !.regions =
            [j \in 1..Len(data[k].regions) |->
                [data[k].regions[j] EXCEPT !.rect_id = Stale(@, cv)]]]]

\* canvas.delete(id): a no-op for NoRect and for an id that is not drawn
CanvasDelete(cv, id) == {it \in cv : it.id # id}

\* canvas.itemconfig(id, dash=()): a no-op for an id that is not drawn
CanvasSolid(cv, id) ==
    {IF it.id = id THEN [it EXCEPT !.dash = FALSE] ELSE it : it \in cv}

\* min/max normalisation of a rectangle given by two corners
Normalize(p, q) == <<Min(p[1], q[1]), Min(p[2], q[2]), Max(p[1], q[1]), Max(p[2], q[2])>>

\* on_mouse_up that accepts a rectangle of exactly MinDragSize pixels
BigEnough_Inclusive(r) ==
    Abs(r[3] - r[1]) >= MinDragSize /\ Abs(r[4] - r[2]) >= MinDragSize

\* gui.py on_mouse_up line 710
BigEnough(r) == Abs(r[3] - r[1]) > MinDragSize /\ Abs(r[4] - r[2]) > MinDragSize

ListText(n, region) ==
    [n |-> n, mode |-> region.mode,
     w |-> region.coords[3] - region.coords[1],
     h |-> region.coords[4] - region.coords[2]]

ListTexts(rs) == [k \in 1..Len(rs) |-> ListText(k, rs[k])]

(***************************************************************************)
(* PDF extraction                                                          *)
(***************************************************************************)
\* gui.py _add_image line 83: image_path.lower().endswith('.pdf')
IsPdf(image_path) == image_path.ext \in {"pdf", "PDF"}

\* the library call of extract_image_from_pdf that raises, if any; the
\* partial ones leave the output file behind
PdfFailures ==
    {"none", "open", "get_images", "makedirs", "extract_image", "write",
     "write_partial", "get_pixmap", "save", "save_partial"}

\* pdf_utils.py extract_image_from_pdf: whether it raises, what it returns
\* and the files it leaves in the temp directory.  fitz: PyMuPDF was imported
ExtractImageFromPdf(pdf_path, fitz, fails) ==
    LET embedded == pdf_path.stem = "scan"
        out == [dir |-> "tmp", stem |-> pdf_path.stem, ext |-> "png",
                tag |-> IF embedded THEN "extracted" ELSE "rendered"]
        none == [raised |-> FALSE, result |-> None, written |-> {}]
    IN IF ~fitz THEN [none EXCEPT !.raised = TRUE]
       ELSE IF pdf_path.stem = "missing" \/ fails = "open" THEN none
       ELSE IF pdf_path.stem = "empty" THEN none
       ELSE IF fails \in {"get_images", "makedirs"} THEN none
       ELSE IF embedded /\ fails \in {"extract_image", "write"} THEN none
       ELSE IF ~embedded /\ fails \in {"get_pixmap", "save"} THEN none
       ELSE IF (embedded /\ fails = "write_partial")
                 \/ (~embedded /\ fails = "save_partial")
       THEN [none EXCEPT !.written = {out}]
       ELSE [raised |-> FALSE, result |-> out, written |-> {out}]

\* the extraction in a session: PyMuPDF installed, no library call fails
SessionExtract(image_path) == ExtractImageFromPdf(image_path, TRUE, "none")

\* gui.py _add_image lines 87-93: ValueError when the PDF gives no image
\* (or the ImportError of the extraction)
AddImageRaises(image_path) ==
    /\ IsPdf(image_path)
    /\ \/ SessionExtract(image_path).raised
       \/ SessionExtract(image_path).result = None

\* an extraction whose output the cleanup removes again (cleanup_tmp_dir
\* called after _add_image)
ExtractedFiles_CleanedUp(image_path) == {}

\* the files extract_image_from_pdf leaves when image_path is a PDF
ExtractedFiles(image_path) ==
    IF IsPdf(image_path) THEN SessionExtract(image_path).written ELSE {}

(***************************************************************************)
(* Image entries                                                           *)
(***************************************************************************)
\* _add_image: the entry appended (image_path is the extracted file for a PDF)
NewEntry(image_path) ==
    [original_path |-> image_path,
     image_path |-> IF IsPdf(image_path) THEN SessionExtract(image_path).result
                    ELSE image_path,
     original_image |-> FALSE,
     size |-> None,
     scale_factor |-> Rat(1, 1),
     regions |-> <<>>]

\* _add_image that puts the new entry first
AddedImage_Front(data, image_path) ==
    IF AddImageRaises(image_path) THEN data ELSE <<NewEntry(image_path)>> \o data

\* gui.py _add_image: the list after the call (unchanged when it raises)
AddedImage(data, image_path) ==
    IF AddImageRaises(image_path) THEN data ELSE Append(data, NewEntry(image_path))

\* Image.open(self.image_path) succeeds: the buffer is there already, the
\* file decodes, or it is a PNG in the temp directory (extracted from a PDF,
\* or exported earlier) that is still among its files
CanOpenIn(e, files) ==
    \/ e.original_image
    \/ e.image_path \in ReadablePaths
    \/ e.image_path.dir = "tmp" /\ DirEntry(e.image_path) \in files

\* the same with the temp directory as it is
CanOpen(e) == CanOpenIn(e, tmp_files)

\* _load_current_image that opens the file without storing the buffer in
\* the entry
Opened_NotStored(e) ==
    IF e.original_image THEN e ELSE [e EXCEPT !.size = ImageSize(e.image_path)]

\* _load_current_image, lines 318-320: open the pixel buffer if unset
Opened(e) ==
    IF e.original_image THEN e
    ELSE [e EXCEPT !.original_image = TRUE, !.size = ImageSize(e.image_path)]

\* the canvas size _display_image works with (1600x1280 when not laid out)
CanvasWidth == IF canvas_size[1] <= 1 THEN FallbackCanvasWidth ELSE canvas_size[1]
CanvasHeight == IF canvas_size[2] <= 1 THEN FallbackCanvasHeight ELSE canvas_size[2]

\* _display_image without the fallback for a canvas that is not laid out
DisplayScale_NoFallback(e) ==
    ComputeScale(e.size[1], e.size[2], canvas_size[1], canvas_size[2])

\* the scale _display_image computes for a loaded entry
DisplayScale(e) == ComputeScale(e.size[1], e.size[2], CanvasWidth, CanvasHeight)

\* the scale the controller without UI computes (always the fallback canvas)
HeadlessScale(e) ==
    ComputeScale(e.size[1], e.size[2], FallbackCanvasWidth, FallbackCanvasHeight)

\* Image.resize((int(w * scale), int(h * scale))) accepts the size
ResizeOk(e, s) ==
    /\ Trunc(e.size[1] * s[1], s[2]) > 0
    /\ Trunc(e.size[2] * s[1], s[2]) > 0

\* rotate without expand=True: the picture keeps its dimensions
Rotated_NoExpand(size, angle) == size

\* PIL rotate(+-90, expand=True) swaps the dimensions, rotate(180) keeps them
Rotated(size, angle) == IF angle = 180 THEN size ELSE <<size[2], size[1]>>

\* the record of the handler that ran last: its name, whether it took its
\* main branch, and what it was given (the index, the dialog answer, the
\* released rectangle; for rotate the number of regions and whether a
\* selection was pending when it was called)
LastArg(op, ok, arg) == [op |-> op, ok |-> ok, arg |-> arg, exc |-> ""]
\* the step ended with the named exception leaving the handler
LastExc(op, arg, exc) == [op |-> op, ok |-> FALSE, arg |-> arg, exc |-> exc]
Last(op, ok) == LastArg(op, ok, None)

(***************************************************************************)
(* Mouse handlers                                                          *)
(***************************************************************************)
\* gui.py on_mouse_down
OnMouseDown(p) ==
    /\ pc = "gui"
    /\ ~pressed
    /\ pointer' = p
    /\ IF image
       THEN /\ start' = p
            /\ canvas' = IF current_rect # NoRect
                         THEN CanvasDelete(canvas, current_rect) ELSE canvas
            /\ current_rect' = Stale(current_rect, canvas')
       ELSE UNCHANGED <<start, canvas, current_rect>>
    /\ last' = Last("mouse_down", image)
    /\ UNCHANGED <<pc, create_ui, images_data, current_image_index, result_ready,
                   image, current_selection, selection_mode,
                   region_listbox, canvas_size, tmp_files, file_text, tmp_exists, opened, clock, ret>>
    /\ UNCHANGED flowVars

\* gui.py on_mouse_drag
OnMouseDrag(p) ==
    /\ pc = "gui"
    /\ pressed
    /\ IF image /\ start # None
       THEN LET cleared == IF current_rect # NoRect
                           THEN CanvasDelete(canvas, current_rect) ELSE canvas
                id == FreshId(cleared)
            IN /\ canvas' = cleared \cup
                     {[id |-> id, coords |-> Normalize(start, p), dash |-> TRUE]}
               /\ current_rect' = id
       ELSE UNCHANGED <<canvas, current_rect>>
    /\ pointer' = p
    /\ last' = Last("mouse_drag", image /\ start # None)
    /\ UNCHANGED <<pc, create_ui, images_data, current_image_index, result_ready,
                   image, start, current_selection, selection_mode,
                   region_listbox, canvas_size, tmp_files, file_text, tmp_exists, opened, clock, ret>>
    /\ UNCHANGED flowVars

\* gui.py on_mouse_up; the release is reported where the pointer is
OnMouseUp(p) ==
    /\ pc = "gui"
    /\ pressed
    /\ p = pointer
    /\ pointer' = None
    /\ IF image /\ start # None
       THEN LET r == Normalize(start, p)
            IN IF BigEnough(r)
               THEN /\ current_selection' = r
                    /\ UNCHANGED <<canvas, current_rect>>
               ELSE /\ canvas' = IF current_rect # NoRect
                                 THEN CanvasDelete(canvas, current_rect) ELSE canvas
                    /\ current_rect' = IF current_rect # NoRect THEN NoRect ELSE current_rect
                    /\ current_selection' = None
       ELSE UNCHANGED <<canvas, current_rect, current_selection>>
    /\ last' = LastArg("mouse_up",
                        image /\ start # None /\ BigEnough(Normalize(start, p)),
                        IF image /\ start # None THEN Normalize(start, p) ELSE None)
    /\ UNCHANGED <<pc, create_ui, images_data, current_image_index, result_ready,
                   image, start, selection_mode, region_listbox, canvas_size,
                   tmp_files, file_text, tmp_exists, opened, clock, ret>>
    /\ UNCHANGED flowVars

\* the Foto/Text radio buttons bound to selection_mode
SetMode(m) ==
    /\ pc = "gui"
    /\ m # selection_mode
    /\ selection_mode' = m
    /\ last' = Last("set_mode", TRUE)
    /\ UNCHANGED <<pc, create_ui, images_data, current_image_index, result_ready,
                   image, start, pointer, current_rect, current_selection, canvas,
                   region_listbox, canvas_size, tmp_files, file_text, tmp_exists, opened, clock, ret>>
    /\ UNCHANGED flowVars

\* the window manager resizes the window, and with it the canvas
ResizeWindow(sz) ==
    /\ pc = "gui"
    /\ sz # canvas_size
    /\ canvas_size' = sz
    /\ last' = Last("resize", TRUE)
    /\ UNCHANGED <<pc, create_ui, images_data, current_image_index, result_ready,
                   image, start, pointer, current_rect, current_selection,
                   selection_mode, canvas, region_listbox, tmp_files, file_text, tmp_exists, opened,
                   clock, ret>>
    /\ UNCHANGED flowVars

(***************************************************************************)
(* Command handlers                                                        *)
(***************************************************************************)
\* gui.py save_current_selection (the session saves at most MaxRegions regions)
SaveCurrentSelection ==
    /\ pc = "gui"
    /\ IF current_selection = None
       THEN UNCHANGED <<images_data, region_listbox, canvas, current_rect,
                        current_selection>>
       ELSE /\ TotalRegions(images_data) < MaxRegions
            /\ LET region == [coords |-> current_selection,
                              mode |-> selection_mode,
                              rect_id |-> current_rect]
                   rs == Append(regions, region)
               IN /\ images_data' = [images_data EXCEPT ![Cur].regions = rs]
                  /\ region_listbox' = Append(region_listbox, ListText(Len(rs), region))
            /\ canvas' = IF current_rect # NoRect
                         THEN CanvasSolid(canvas, current_rect) ELSE canvas
            /\ current_rect' = NoRect
            /\ current_selection' = None
    /\ last' = Last("save", current_selection # None)
    /\ UNCHANGED <<pc, create_ui, current_image_index, result_ready, image, start,
                   pointer, selection_mode, canvas_size, tmp_files, file_text, tmp_exists, opened, clock, ret>>
    /\ UNCHANGED flowVars

\* the rectangles of a list of regions, deleted one by one
RECURSIVE DeleteRects(_, _)
DeleteRects(cv, rs) ==
    IF rs = <<>> THEN cv
    ELSE DeleteRects(IF Head(rs).rect_id # NoRect
                     THEN CanvasDelete(cv, Head(rs).rect_id) ELSE cv,
                     Tail(rs))

\* gui.py clear_regions; confirm is the answer to "Alle Bereiche loeschen?"
\* clear_regions that empties the region list of every loaded image
ClearRegions_AllImages(confirm) ==
    /\ pc = "gui"
    /\ IF regions # <<>> /\ confirm
       THEN /\ canvas' = DeleteRects(canvas, regions)
            /\ images_data' = [k \in 1..Len(images_data) |->
                                  [images_data[k] EXCEPT !.regions = <<>>]]
            /\ region_listbox' = <<>>
       ELSE UNCHANGED <<canvas, images_data, region_listbox>>
    /\ last' = LastArg("clear", regions # <<>> /\ confirm, confirm)
    /\ UNCHANGED <<pc, create_ui, current_image_index, result_ready, image, start,
                   pointer, current_rect, current_selection, selection_mode,
                   canvas_size, tmp_files, file_text, tmp_exists, opened, clock, ret>>
    /\ UNCHANGED flowVars

ClearRegions(confirm) ==
    /\ pc = "gui"
    /\ IF regions # <<>> /\ confirm
       THEN /\ canvas' = DeleteRects(canvas, regions)
            /\ images_data' = [images_data EXCEPT ![Cur].regions = <<>>]
            /\ region_listbox' = <<>>
       ELSE UNCHANGED <<canvas, images_data, region_listbox>>
    /\ last' = LastArg("clear", regions # <<>> /\ confirm, confirm)
    /\ UNCHANGED <<pc, create_ui, current_image_index, result_ready, image, start,
                   pointer, current_rect, current_selection, selection_mode,
                   canvas_size, tmp_files, file_text, tmp_exists, opened, clock, ret>>
    /\ UNCHANGED flowVars

\* rotate_image that forgets to drop the saved regions
RotatedEntry_KeepsRegions(e, s) == [e EXCEPT !.scale_factor = s]

\* gui.py rotate_image lines 795-802 and the scale set by the redisplay: the
\* entry of the rotated image once its regions are dropped
RotatedEntry(e, s) == [e EXCEPT !.regions = <<>>, !.scale_factor = s]

\* gui.py rotate_image, with and without UI
RotateImage(angle) ==
    /\ pc \in {"gui", "headless"}
    /\ IF ~original_image
       THEN UNCHANGED <<images_data, canvas, current_rect, current_selection,
                        region_listbox, image>>
       ELSE LET e == [images_data[Cur] EXCEPT !.size = Rotated(@, angle)]
                s == IF create_ui THEN DisplayScale(e) ELSE HeadlessScale(e)
                cv1 == IF create_ui /\ current_rect # NoRect
                       THEN CanvasDelete(canvas, current_rect) ELSE canvas
                cv2 == IF create_ui THEN DeleteRects(cv1, regions) ELSE cv1
            IN /\ images_data' = [images_data EXCEPT ![Cur] = RotatedEntry(e, s)]
               /\ current_rect' = NoRect
               /\ current_selection' = None
               /\ region_listbox' = IF create_ui /\ regions # <<>>
                                    THEN <<>> ELSE region_listbox
               /\ IF ResizeOk(e, s)
                  THEN /\ image' = TRUE
                       /\ canvas' = IF create_ui THEN {} ELSE cv2
                  ELSE /\ canvas' = cv2
                       /\ UNCHANGED image
    /\ last' = LastArg("rotate", original_image,
                        <<Len(regions), current_selection # None, angle>>)
    /\ UNCHANGED <<pc, create_ui, current_image_index, result_ready, start, pointer,
                   selection_mode, canvas_size, tmp_files, file_text, tmp_exists, opened, clock, ret>>
    /\ UNCHANGED flowVars

\* gui.py add_image with the path the file dialog returned, and _add_image
\* (None: the dialog was cancelled).  The exception of _add_image ends in an
\* error box.
AddImage(file_path) ==
    /\ pc = "gui"
    /\ Len(images_data) < MaxImages
    /\ IF file_path = None
       THEN UNCHANGED <<images_data, tmp_files>>
       ELSE /\ images_data' = AddedImage(images_data, file_path)
            /\ tmp_files' = tmp_files \cup ExtractedFiles(file_path)
    /\ last' = LastArg("add_image", file_path # None /\ ~AddImageRaises(file_path),
                       <<file_path>>)
    /\ UNCHANGED <<pc, create_ui, current_image_index, result_ready, image, start,
                   pointer, current_rect, current_selection, selection_mode, canvas,
                   region_listbox, canvas_size, file_text, tmp_exists, opened, clock, ret>>
    /\ UNCHANGED flowVars

\* run() that returns the entries whether or not the selection was finished
RunResult_Always(ready, data) == data

\* gui.py run lines 853-856: what run() returns once the mainloop has ended
RunResult(ready, data) == IF ready THEN data ELSE None

\* root.destroy() ends the mainloop: run() returns to call_tool, which tests
\* the result (server.py lines 1147-1152 and 1200-1206).  No handler runs
\* again, so the fields only handlers read are dropped from the state.
MainloopEnds(ready, data) ==
    /\ IF RunResult(ready, data) # None /\ RunResult(ready, data) # <<>>
       THEN /\ pc' = "export"
            /\ export_idx' = 1
            /\ UNCHANGED response
       ELSE /\ pc' = "done"
            /\ export_idx' = 0
            /\ response' = "Auswahl abgebrochen - keine Bereiche exportiert"
    /\ ret' = RunResult(ready, data)
    /\ all_exported_files' = <<>>
    /\ total_exported' = 0
    /\ canvas' = {}
    /\ region_listbox' = <<>>
    /\ start' = None
    /\ pointer' = None
    /\ current_rect' = NoRect
    /\ current_selection' = None
    /\ selection_mode' = "foto"
    /\ image' = FALSE
    /\ current_image_index' = 0

\* call_tool without the try block: the exception reaches the caller
ErrorResponse_Propagates(exc) == "raised"

\* server.py call_tool lines 1208-1211: except Exception turns whatever was
\* raised since line 1145 into one text response
ErrorResponse(exc) == "Fehler beim Oeffnen der GUI"

\* gui.py run line 853: root.mainloop() raises (TclError), and the exception
\* leaves run() for call_tool; the controller is not used again
MainloopRaises ==
    /\ pc = "gui"
    /\ pc' = "done"
    /\ response' = ErrorResponse("TclError")
    /\ last' = LastExc("run", None, "TclError")
    /\ images_data' = <<>>
    /\ result_ready' = FALSE
    /\ canvas' = {}
    /\ region_listbox' = <<>>
    /\ start' = None
    /\ pointer' = None
    /\ current_rect' = NoRect
    /\ current_selection' = None
    /\ selection_mode' = "foto"
    /\ image' = FALSE
    /\ current_image_index' = 0
    /\ UNCHANGED <<create_ui, canvas_size, tmp_files, file_text, tmp_exists, opened, clock, ret,
                   export_idx, all_exported_files, total_exported>>

\* gui.py _switch_to_image, with _load_current_image and _display_image
SwitchToImage(index) ==
    IF 0 <= index /\ index < Len(images_data)
    THEN LET e == images_data[index + 1]
             o == Opened(e)
             s == DisplayScale(o)
         IN IF ~CanOpen(e)
            THEN \* Image.open raised: error box, root.destroy()
                 /\ images_data' = StaleAll(images_data, {})
                 /\ MainloopEnds(result_ready, images_data')
            ELSE /\ images_data' = StaleAll([images_data EXCEPT
                                      ![index + 1] = [o EXCEPT !.scale_factor = s]], {})
                 /\ IF ResizeOk(o, s)
                    THEN /\ current_rect' = NoRect
                         /\ current_selection' = None
                         /\ current_image_index' = index
                         /\ image' = TRUE
                         /\ canvas' = {}
                         /\ region_listbox' = ListTexts(o.regions)
                         /\ UNCHANGED <<pc, start, pointer, selection_mode, ret>>
                         /\ UNCHANGED flowVars
                    ELSE \* resize raised: error box, root.destroy()
                         MainloopEnds(result_ready, images_data')
    ELSE /\ UNCHANGED <<current_rect, current_selection, current_image_index, pc,
                        canvas, region_listbox, images_data, image, start, pointer,
                        selection_mode, ret>>
         /\ UNCHANGED flowVars

\* gui.py on_image_select: the list box holds one line per image entry
OnImageSelect(new_index) ==
    /\ pc = "gui"
    /\ new_index \in 0..(Len(images_data) - 1)
    /\ new_index # current_image_index
    /\ SwitchToImage(new_index)
    /\ last' = LastArg("switch", CanOpen(images_data[new_index + 1]), new_index)
    /\ UNCHANGED <<create_ui, result_ready, canvas_size, tmp_files, file_text, tmp_exists, opened, clock>>

\* gui.py _switch_to_image called with an index the image list box cannot
\* deliver: below zero or past the end of images_data
SwitchOutOfRange(index) ==
    /\ pc = "gui"
    /\ index \notin 0..(Len(images_data) - 1)
    /\ SwitchToImage(index)
    /\ last' = LastArg("switch", FALSE, index)
    /\ UNCHANGED <<create_ui, result_ready, canvas_size, tmp_files, file_text, tmp_exists, opened, clock>>

\* gui.py finish_selection; confirm is the answer to the export prompt
FinishSelection(confirm) ==
    /\ pc = "gui"
    /\ IF TotalRegions(images_data) # 0 /\ confirm
       THEN /\ result_ready' = TRUE
            /\ images_data' = StaleAll(images_data, {})
            /\ MainloopEnds(TRUE, images_data')
       ELSE /\ UNCHANGED <<result_ready, pc, canvas, region_listbox, start, pointer,
                           current_rect, current_selection, selection_mode, image,
                           current_image_index, images_data, ret>>
            /\ UNCHANGED flowVars
    /\ last' = LastArg("finish", TotalRegions(images_data) # 0 /\ confirm, confirm)
    /\ UNCHANGED <<create_ui, canvas_size, tmp_files, file_text, tmp_exists, opened, clock>>

\* on_closing that ends the session without heeding the answer
OnClosing_NoPrompt(confirm) ==
    /\ pc = "gui"
    /\ result_ready' = FALSE
    /\ images_data' = StaleAll(images_data, {})
    /\ MainloopEnds(FALSE, images_data')
    /\ last' = Last("close", confirm)
    /\ UNCHANGED <<create_ui, canvas_size, tmp_files, file_text, tmp_exists, opened, clock>>

\* gui.py on_closing; confirm is the answer to "Moechten Sie wirklich beenden?"
OnClosing(confirm) ==
    /\ pc = "gui"
    /\ IF confirm
       THEN /\ result_ready' = FALSE
            /\ images_data' = StaleAll(images_data, {})
            /\ MainloopEnds(FALSE, images_data')
       ELSE /\ UNCHANGED <<result_ready, pc, canvas, region_listbox, start, pointer,
                           current_rect, current_selection, selection_mode, image,
                           current_image_index, images_data, ret>>
            /\ UNCHANGED flowVars
    /\ last' = Last("close", confirm)
    /\ UNCHANGED <<create_ui, canvas_size, tmp_files, file_text, tmp_exists, opened, clock>>

(***************************************************************************)
(* Exporter                                                                *)
(***************************************************************************)
\* decimal digits of a natural number, most significant first
RECURSIVE Digits(_)
Digits(n) == IF n < 10 THEN <<n>> ELSE Append(Digits(n \div 10), n % 10)

\* a region number written without zero padding
Pad2_Unpadded(i) == Digits(i)

\* the format specification {i:02d}
Pad2(i) == IF i < 10 THEN <<0, i>> ELSE Digits(i)

\* the file name {base_name}_{timestamp}_region{i:02d}_{mode}.{ext}
FileName(base_name, timestamp, i, mode, ext) ==
    [base |-> base_name, ts |-> timestamp, nn |-> Pad2(i), mode |-> mode, ext |-> ext]

\* export.py format_export_paths
FormatExportPaths(base_name, timestamp, i, mode) ==
    IF mode = "foto"
    THEN [type |-> "foto", region |-> i,
          file |-> FileName(base_name, timestamp, i, "foto", "png")]
    ELSE [type |-> "text", region |-> i,
          image_file |-> FileName(base_name, timestamp, i, "text", "png"),
          text_file |-> FileName(base_name, timestamp, i, "text", "txt")]

\* what can happen to one region inside the try block of export_regions:
\*   ok            every call returns
\*   crop_raises   Image.crop (or int()) raises
\*   save_raises   crop.save raises and leaves no file
\*   save_partial  crop.save raises after creating the file
\*   open_raises   open(text_file, "w") raises (text mode)
\*   write_raises  f.write raises after the text file was created (text mode)
FotoOutcomes == {"ok", "crop_raises", "save_raises", "save_partial"}
TextOutcomes == FotoOutcomes \cup {"open_raises", "write_raises"}
OutcomesFor(mode) == IF mode = "foto" THEN FotoOutcomes ELSE TextOutcomes

\* the sequences of outcomes possible for a list of regions
OutcomeSeqs(regs) ==
    {o \in [1..Len(regs) -> TextOutcomes] :
        \A k \in 1..Len(regs) : o[k] \in OutcomesFor(regs[k].mode)}

\* export.py export_regions, lines 58-105: one turn of the loop for region i
ExportOne(acc, i, region, base_name, timestamp, outcome) ==
    LET info == FormatExportPaths(base_name, timestamp, i, region.mode)
    IN IF outcome = "crop_raises" THEN acc
       ELSE IF info.type = "foto"
       THEN IF outcome = "save_raises" THEN acc
            ELSE IF outcome = "save_partial"
            THEN [acc EXCEPT !.written = @ \cup {info.file}]
            ELSE [files |-> Append(acc.files, info),
                  written |-> acc.written \cup {info.file}]
       ELSE IF outcome = "save_raises" THEN acc
            ELSE IF outcome = "save_partial"
            THEN [acc EXCEPT !.written = @ \cup {info.image_file}]
            ELSE IF outcome = "open_raises"
            THEN [acc EXCEPT !.written = @ \cup {info.image_file}]
            ELSE IF outcome = "write_raises"
            THEN [acc EXCEPT !.written = @ \cup {info.image_file, info.text_file}]
            ELSE [files |-> Append(acc.files, info),
                  written |-> acc.written \cup {info.image_file, info.text_file}]

\* export_regions with the try block around the whole loop: the first
\* failure ends the export
RECURSIVE ExportLoop_Abort(_, _, _, _, _, _)
ExportLoop_Abort(acc, i, regs, base_name, timestamp, outcomes) ==
    IF i > Len(regs) \/ outcomes[i] # "ok" THEN acc
    ELSE ExportLoop_Abort(ExportOne(acc, i, regs[i], base_name, timestamp, outcomes[i]),
                          i + 1, regs, base_name, timestamp, outcomes)

\* export.py export_regions lines 58-105: the loop over enumerate(regions, 1)
RECURSIVE ExportLoop(_, _, _, _, _, _)
ExportLoop(acc, i, regs, base_name, timestamp, outcomes) ==
    IF i > Len(regs) THEN acc
    ELSE ExportLoop(ExportOne(acc, i, regs[i], base_name, timestamp, outcomes[i]),
                    i + 1, regs, base_name, timestamp, outcomes)

\* export_regions that opens the source file even when a buffer is passed
ExportOpens_Always(image_path, image_object) == TRUE

\* export.py export_regions lines 48-51: Image.open(image_path) is reached,
\* and it raises
ExportOpens(image_path, image_object) == ~image_object
ExportRaises(image_path, image_object) ==
    ExportOpens(image_path, image_object) /\ image_path \notin ReadablePaths

\* export.py export_regions: the value returned, and the files written, when
\* the clock reads now and the regions meet the given outcomes
ExportRegions(image_path, regs, image_object, now, outcomes) ==
    LET base_name == image_path.stem
        timestamp == now
        done == ExportLoop([files |-> <<>>, written |-> {}], 1, regs, base_name,
                           timestamp, outcomes)
    IN [success |-> TRUE,
        exported_count |-> Len(done.files),
        files |-> done.files,
        written |-> done.written]

\* the file names a descriptor lists
InfoFiles(info) ==
    IF info.type = "foto" THEN {info.file} ELSE {info.image_file, info.text_file}

(***************************************************************************)
(* Text regions: OCR and the companion text file                           *)
(***************************************************************************)
\* str.strip() over the characters " " and "a"
RECURSIVE LStrip(_)
LStrip(s) == IF s # <<>> /\ Head(s) = " " THEN LStrip(Tail(s)) ELSE s
RECURSIVE RStrip(_)
RStrip(s) ==
    IF s # <<>> /\ s[Len(s)] = " " THEN RStrip(SubSeq(s, 1, Len(s) - 1)) ELSE s
Strip(s) == LStrip(RStrip(s))

\* what pytesseract.image_to_string does with a crop: it raises, or it
\* returns a string
OcrStrings == {<<>>, <<" ">>, <<"a">>, <<" ", "a", " ">>}
OcrResults == [raised : BOOLEAN, text : OcrStrings]

\* the two modules that define export_regions
ExportModules == {"export", "server"}

\* the value of the last line of the text file.  export.py lines 81-95:
\* the stripped OCR text, "[Kein Text erkannt]", "[OCR-Fehler: ...]" or
\* "[Tesseract nicht verfuegbar ...]"; server.py line 1085: always
\* "[OCR-Text hier einfuegen]", OCR is never run
OcrText(module, available, r) ==
    IF module = "server" THEN [kind |-> "template", text |-> <<>>]
    ELSE IF ~available THEN [kind |-> "unavailable", text |-> <<>>]
    ELSE IF r.raised THEN [kind |-> "error", text |-> <<>>]
    ELSE IF Strip(r.text) # <<>> THEN [kind |-> "text", text |-> Strip(r.text)]
    ELSE [kind |-> "none", text |-> <<>>]

\* the four lines written to the text file of region i
TextFileContent(i, info, image_path, ocr_text) ==
    [region |-> i, image_file |-> info.image_file, original |-> image_path,
     ocr_text |-> ocr_text]

\* the text files a call of export_regions creates, with what they hold
\* (None: the write failed before the file was complete)
ExportTexts(module, image_path, regs, now, outcomes, available, ocr) ==
    {[file |-> FormatExportPaths(image_path.stem, now, k, "text").text_file,
      content |-> IF outcomes[k] = "write_raises" THEN None
                  ELSE TextFileContent(k,
                           FormatExportPaths(image_path.stem, now, k, "text"),
                           image_path, OcrText(module, available, ocr[k]))] :
        k \in {j \in 1..Len(regs) :
                  regs[j].mode = "text" /\ outcomes[j] \in {"ok", "write_raises"}}}

\* open(file, "w"): a file written again loses what it held
WriteTexts(held, texts) ==
    {t \in held : \A n \in texts : n.file # t.file} \cup texts

\* the OCR results of a call in which OCR is not looked at
NoOcr(regs) == [k \in 1..Len(regs) |-> [raised |-> FALSE, text |-> <<>>]]

(***************************************************************************)
(* Construction, and the select-and-export flow of call_tool               *)
(***************************************************************************)
\* rectangles the tests assign to gui.regions and gui.current_selection
MockRegions ==
    {<<>>,
     <<[coords |-> <<0, 0, 6, 6>>, mode |-> "foto", rect_id |-> NoRect]>>,
     <<[coords |-> <<0, 0, 6, 6>>, mode |-> "foto", rect_id |-> NoRect],
       [coords |-> <<6, 6, 12, 12>>, mode |-> "text", rect_id |-> NoRect]>>}

\* what a name in the temp directory is: "file" (a regular file os.remove
\* deletes), "locked" (a regular file whose removal raises) or "dir".  The
\* files the session writes are regular files.
Kind(f) == IF "kind" \in DOMAIN f THEN f.kind ELSE "file"

\* cleanup_tmp_dir with the try block around the loop: a failing removal
\* ends the cleanup
Cleanups_Abort(files) ==
    IF \E f \in files : Kind(f) = "locked" THEN {files}
    ELSE {{f \in files : Kind(f) # "file"}}

\* utils.py cleanup_tmp_dir: what is left of the names directly in the temp
\* directory (one outcome: whether a removal fails is a property of the file)
Cleanups(files) == {{f \in files : Kind(f) # "file"}}

\* gui.py __init__ for an existing path: cleanup, _add_image, _setup_ui,
\* _load_current_image.  kept are the old files whose removal failed.
Construct(image_path, ui, kept) ==
    LET e == NewEntry(image_path)
        o == Opened(e)
        s == IF ui THEN DisplayScale(o) ELSE HeadlessScale(o)
        files == kept \cup ExtractedFiles(image_path)
        loaded == CanOpenIn(e, files) /\ ResizeOk(o, s)
    IN /\ create_ui' = ui
       /\ result_ready' = FALSE
       /\ tmp_files' = kept \cup ExtractedFiles(image_path)
       /\ file_text' = {t \in file_text : t.file \in kept}
       /\ tmp_exists' = TRUE
       /\ images_data' = IF AddImageRaises(image_path) THEN <<>>
                         ELSE IF CanOpenIn(e, files)
                         THEN <<[o EXCEPT !.scale_factor = s]>> ELSE <<e>>
       /\ IF AddImageRaises(image_path)
          THEN \* _add_image raised: the exception leaves the constructor
               /\ pc' = "done"
               /\ response' = IF ui THEN ErrorResponse("ValueError") ELSE "raised"
               /\ UNCHANGED <<current_image_index, start, pointer, current_rect,
                              current_selection, selection_mode, canvas,
                              region_listbox, image, export_idx, all_exported_files,
                              total_exported, ret>>
          ELSE IF loaded
          THEN /\ pc' = IF ui THEN "gui" ELSE "headless"
               /\ current_image_index' = 0
               /\ start' = None
               /\ pointer' = None
               /\ current_rect' = NoRect
               /\ current_selection' = None
               /\ selection_mode' = "foto"
               /\ canvas' = {}
               /\ region_listbox' = <<>>
               /\ image' = TRUE
               /\ UNCHANGED ret
               /\ UNCHANGED flowVars
          ELSE IF ui
          THEN \* error box and root.destroy(): run() returns at once
               MainloopEnds(FALSE, images_data')
          ELSE \* without UI the exception leaves the constructor
               /\ pc' = "done"
               /\ response' = "raised"
               /\ UNCHANGED <<current_image_index, start, pointer, current_rect,
                              current_selection, selection_mode, canvas,
                              region_listbox, image, export_idx, all_exported_files,
                              total_exported, ret>>

\* server.py call_tool lines 1133-1134: a relative path is joined to the
\* working directory
ResolvePath(image_path) ==
    IF image_path.dir = "" THEN [image_path EXCEPT !.dir = WorkingDir] ELSE image_path

\* call_tool that takes every path for an existing file
PathFound_Always(image_path) == TRUE

\* server.py call_tool line 1136: os.path.exists(image_path), after resolution
PathFound(image_path) ==
    LET p == ResolvePath(image_path)
    IN IF p.dir = "tmp" THEN DirEntry(p) \in tmp_files ELSE p \in ExistingPaths

\* server.py call_tool, select_image_regions, up to the start of the mainloop
CallToolSelect(image_path) ==
    /\ pc = "idle"
    /\ IF image_path = None
       THEN /\ response' = "Fehler: image_path erforderlich"
            /\ pc' = "done"
            /\ tmp_exists' = TRUE
            /\ UNCHANGED <<guiVars, tmp_files, file_text, export_idx, all_exported_files,
                           total_exported, ret>>
       ELSE IF ~PathFound(image_path)
       THEN /\ response' = "Fehler: Bild nicht gefunden"
            /\ pc' = "done"
            /\ tmp_exists' = TRUE
            /\ UNCHANGED <<guiVars, tmp_files, file_text, export_idx, all_exported_files,
                           total_exported, ret>>
       ELSE /\ \E kept \in Cleanups(tmp_files) :
                  Construct(ResolvePath(image_path), TRUE, kept)
            /\ UNCHANGED canvas_size
    /\ last' = IF image_path # None /\ PathFound(image_path)
                   /\ AddImageRaises(ResolvePath(image_path))
                THEN LastExc("call_tool", <<image_path>>, "ValueError")
                ELSE LastArg("call_tool", image_path # None /\ PathFound(image_path),
                             <<image_path>>)
    /\ UNCHANGED <<opened, clock>>

\* the tests' ImageSelectorGUI(path, tmp_path, create_ui=False)
ConstructHeadless(image_path) ==
    /\ pc = "idle"
    /\ image_path \in ExistingPaths
    /\ \E kept \in Cleanups(tmp_files) : Construct(image_path, FALSE, kept)
    /\ last' = IF AddImageRaises(image_path)
                THEN LastExc("construct", None, "ValueError")
                ELSE Last("construct", TRUE)
    /\ UNCHANGED <<canvas_size, opened, clock>>

\* the tests' assignments gui.regions = [...] and gui.current_selection = (...)
TestSetRegions(rs) ==
    /\ pc = "headless"
    /\ rs # regions
    /\ images_data' = [images_data EXCEPT ![Cur].regions = rs]
    /\ last' = Last("set_regions", TRUE)
    /\ UNCHANGED <<pc, create_ui, current_image_index, result_ready, image, start,
                   pointer, current_rect, current_selection, selection_mode, canvas,
                   region_listbox, canvas_size, tmp_files, file_text, tmp_exists, opened, clock, ret>>
    /\ UNCHANGED flowVars

TestSetSelection(sel) ==
    /\ pc = "headless"
    /\ sel # current_selection
    /\ current_selection' = sel
    /\ last' = Last("set_selection", TRUE)
    /\ UNCHANGED <<pc, create_ui, images_data, current_image_index, result_ready,
                   image, start, pointer, current_rect, selection_mode, canvas,
                   region_listbox, canvas_size, tmp_files, file_text, tmp_exists, opened, clock, ret>>
    /\ UNCHANGED flowVars

\* the tests' assignment gui.original_image = None
TestUnsetImage ==
    /\ pc = "headless"
    /\ original_image
    /\ images_data' = [images_data EXCEPT ![Cur].original_image = FALSE,
                                          ![Cur].size = None]
    /\ last' = Last("unset_image", TRUE)
    /\ UNCHANGED <<pc, create_ui, current_image_index, result_ready, image, start,
                   pointer, current_rect, current_selection, selection_mode, canvas,
                   region_listbox, canvas_size, tmp_files, file_text, tmp_exists, opened, clock, ret>>
    /\ UNCHANGED flowVars

\* the regions of an entry with transform_coords applied in place
Transformed(e) ==
    [k \in 1..Len(e.regions) |->
        [e.regions[k] EXCEPT !.coords = TransformCoords(@, e.scale_factor)]]

\* the outcomes the session enumerates for a region it exports: with
\* print_raises the crop raises and so does the print to stderr in the
\* handler, which nothing in export_regions catches
SessionOutcomes == {"ok", "crop_raises", "print_raises"}

\* the first region whose handler raises, or 0
FirstRaise(outcomes) ==
    IF \E k \in DOMAIN outcomes : outcomes[k] = "print_raises"
    THEN CHOOSE k \in DOMAIN outcomes :
            /\ outcomes[k] = "print_raises"
            /\ \A j \in 1..(k - 1) : outcomes[j] # "print_raises"
    ELSE 0

\* server.py call_tool lines 1154-1172: one turn of the loop over images_data
ExportStep ==
    /\ pc = "export"
    /\ export_idx <= Len(images_data)
    /\ LET e == images_data[export_idx]
       IN IF e.regions = <<>>
          THEN /\ export_idx' = export_idx + 1
               /\ last' = Last("export_step", FALSE)
               /\ UNCHANGED <<images_data, tmp_files, file_text, tmp_exists, opened, all_exported_files,
                              total_exported, response, pc>>
          ELSE IF TransformRaises(e.scale_factor)
          THEN /\ pc' = "done"
               /\ response' = ErrorResponse("ValueError")
               /\ last' = LastExc("export_step", None, "ValueError")
               /\ UNCHANGED <<images_data, tmp_files, file_text, tmp_exists, opened, all_exported_files,
                              total_exported, export_idx>>
          ELSE /\ images_data' = [images_data EXCEPT ![export_idx].regions = Transformed(e)]
               /\ opened' = IF ExportOpens(e.original_path, e.original_image)
                            THEN opened \cup {e.original_path} ELSE opened
               /\ IF ExportRaises(e.original_path, e.original_image)
                  THEN /\ pc' = "done"
                       /\ response' = ErrorResponse("OSError")
                       /\ last' = LastExc("export_step", None, "OSError")
                       /\ UNCHANGED <<tmp_files, file_text, tmp_exists, all_exported_files, total_exported,
                                      export_idx>>
                  ELSE \E outcomes \in [1..Len(e.regions) -> SessionOutcomes] :
                         LET k == FirstRaise(outcomes)
                             n == IF k = 0 THEN Len(e.regions) ELSE k - 1
                             seen == [j \in 1..n |->
                                        IF outcomes[j] = "print_raises"
                                        THEN "crop_raises" ELSE outcomes[j]]
                             result == ExportRegions(e.original_path,
                                           SubSeq(Transformed(e), 1, n),
                                           e.original_image, clock, seen)
                         IN /\ tmp_files' = tmp_files \cup result.written
                            /\ UNCHANGED tmp_exists
                            /\ file_text' =
                                 WriteTexts(file_text,
                                     ExportTexts("server", e.original_path,
                                         SubSeq(Transformed(e), 1, n), clock, seen,
                                         FALSE, NoOcr(e.regions)))
                            /\ IF k = 0
                               THEN /\ all_exported_files' =
                                         all_exported_files \o result.files
                                    /\ total_exported' =
                                         total_exported + result.exported_count
                                    /\ export_idx' = export_idx + 1
                                    /\ last' = Last("export_step", TRUE)
                                    /\ UNCHANGED <<pc, response>>
                               ELSE /\ pc' = "done"
                                    /\ response' = ErrorResponse("OSError")
                                    /\ last' = LastExc("export_step", None, "OSError")
                                    /\ UNCHANGED <<all_exported_files, total_exported,
                                                   export_idx>>
    \* run() returned the list itself: result and images_data are one object
    /\ ret' = images_data'
    /\ UNCHANGED <<create_ui, current_image_index, result_ready, image, start, pointer,
                   current_rect, current_selection, selection_mode, canvas,
                   region_listbox, canvas_size, clock>>

\* server.py call_tool lines 1174-1199: the answer after the loop
ExportFinish ==
    /\ pc = "export"
    /\ export_idx > Len(images_data)
    /\ pc' = "done"
    /\ response' = IF total_exported > 0
                   THEN "Erfolgreich exportiert"
                   ELSE "Keine Bereiche zum Exportieren ausgewaehlt"
    /\ last' = Last("export_finish", total_exported > 0)
    /\ UNCHANGED <<guiVars, tmp_files, file_text, tmp_exists, opened, clock, ret, export_idx,
                   all_exported_files, total_exported>>

\* a second passes on the wall clock read by export_regions
Tick ==
    /\ pc \in {"export", "caller"}
    /\ clock < MaxClock
    /\ clock' = clock + 1
    /\ last' = Last("tick", TRUE)
    /\ UNCHANGED <<pc, guiVars, flowVars, tmp_files, file_text, tmp_exists, opened, ret>>

(***************************************************************************)
(* The session: one select_image_regions call, or one controller without UI*)
(***************************************************************************)
Init ==
    /\ pc = "idle"
    /\ create_ui = TRUE
    /\ images_data = <<>>
    /\ current_image_index = 0
    /\ result_ready = FALSE
    /\ image = FALSE
    /\ start = None
    /\ pointer = None
    /\ current_rect = NoRect
    /\ current_selection = None
    /\ selection_mode = "foto"
    /\ canvas = {}
    /\ region_listbox = <<>>
    /\ canvas_size \in CanvasSizes
    /\ tmp_files = {OldFile}
    /\ file_text = {}
    /\ tmp_exists = TRUE
    /\ opened = {}
    /\ clock = 0
    /\ export_idx = 0
    /\ all_exported_files = <<>>
    /\ total_exported = 0
    /\ response = ""
    /\ ret = None
    /\ last = Last("init", TRUE)

Next ==
    \/ \E p \in FirstPaths : CallToolSelect(p)
    \/ \E p \in ExistingPaths : ConstructHeadless(p)
    \/ \E rs \in MockRegions : TestSetRegions(rs)
    \/ \E sel \in {None, <<0, 0, 6, 6>>} : TestSetSelection(sel)
    \/ TestUnsetImage
    \/ \E p \in DownPoints : OnMouseDown(p)
    \/ \E p \in DragPoints : OnMouseDrag(p)
    \/ \E p \in DownPoints \cup DragPoints : OnMouseUp(p)
    \/ \E m \in Modes : SetMode(m)
    \/ SaveCurrentSelection
    \/ \E c \in BOOLEAN : ClearRegions(c)
    \/ \E a \in Angles : RotateImage(a)
    \/ \E p \in AddPaths : AddImage(p)
    \/ \E i \in 0..(MaxImages - 1) : OnImageSelect(i)
    \/ \E i \in {-1, MaxImages} : SwitchOutOfRange(i)
    \/ \E c \in BOOLEAN : FinishSelection(c)
    \/ \E c \in BOOLEAN : OnClosing(c)
    \/ MainloopRaises
    \/ ExportStep
    \/ ExportFinish
    \/ Tick

Spec == Init /\ [][Next]_vars

(***************************************************************************)
(* export_regions called directly, as the tests and other callers do       *)
(***************************************************************************)
\* the image_path arguments of the direct calls
ExportPaths == {PathA, PathBad, PathMissing}

\* the regions of the direct calls: inside the image, and far outside it
ExportCoords == {<<0, 0, 6, 6>>, <<1000, 1000, 2000, 2000>>}
ExportRegion == [coords : ExportCoords, mode : Modes]
ExportRegionLists ==
    UNION {[1..n -> ExportRegion] : n \in 0..MaxExportRegions}

\* export_regions of the given module called with (image_path, regs,
\* working_dir, image_object); image_object tells whether a loaded buffer is
\* passed, available whether pytesseract was imported, ocr what OCR does with
\* each crop.  ret records the call and how it ended.
ExportCallIn(module, image_path, regs, image_object, outcomes, available, ocr) ==
    /\ pc = "caller"
    /\ pc' = "returned"
    /\ opened' = IF ExportOpens(image_path, image_object)
                 THEN opened \cup {image_path} ELSE opened
    /\ IF ExportRaises(image_path, image_object)
       THEN /\ ret' = [module |-> module, image_path |-> image_path, regions |-> regs,
                       image_object |-> image_object, outcomes |-> outcomes,
                       available |-> available, ocr |-> ocr,
                       now |-> clock, before |-> tmp_files,
                       raised |-> TRUE, result |-> None]
            /\ UNCHANGED <<tmp_files, file_text, tmp_exists>>
       ELSE LET result == ExportRegions(image_path, regs, image_object, clock, outcomes)
            IN /\ ret' = [module |-> module, image_path |-> image_path,
                          regions |-> regs,
                          image_object |-> image_object, outcomes |-> outcomes,
                          available |-> available, ocr |-> ocr,
                          now |-> clock, before |-> tmp_files,
                          raised |-> FALSE,
                          result |-> [success |-> result.success,
                                      exported_count |-> result.exported_count,
                                      files |-> result.files]]
               /\ tmp_files' = tmp_files \cup result.written
               /\ UNCHANGED tmp_exists
               /\ file_text' = WriteTexts(file_text,
                                   ExportTexts(module, image_path, regs, clock,
                                               outcomes, available, ocr))
    /\ last' = Last("export_regions", ~ExportRaises(image_path, image_object))
    /\ UNCHANGED <<guiVars, flowVars, clock>>

\* export.py export_regions on a machine without pytesseract
ExportCall(image_path, regs, image_object, outcomes) ==
    ExportCallIn("export", image_path, regs, image_object, outcomes, FALSE,
                 NoOcr(regs))

InitExport ==
    /\ pc = "caller"
    /\ create_ui = FALSE
    /\ images_data = <<>>
    /\ current_image_index = 0
    /\ result_ready = FALSE
    /\ image = FALSE
    /\ start = None
    /\ pointer = None
    /\ current_rect = NoRect
    /\ current_selection = None
    /\ selection_mode = "foto"
    /\ canvas = {}
    /\ region_listbox = <<>>
    /\ canvas_size \in CanvasSizes
    /\ tmp_files \in {{}, {OldFile}}
    /\ file_text = {}
    /\ tmp_exists = TRUE
    /\ opened = {}
    /\ clock = 0
    /\ export_idx = 0
    /\ all_exported_files = <<>>
    /\ total_exported = 0
    /\ response = ""
    /\ ret = None
    /\ last = Last("init", TRUE)

\* one direct call, with any of the arguments and outcomes
ExportCalls ==
    /\ pc = "caller"
    /\ \E p \in ExportPaths, regs \in ExportRegionLists, b \in BOOLEAN :
          \E outcomes \in OutcomeSeqs(regs) : ExportCall(p, regs, b, outcomes)

NextExport ==
    \/ ExportCalls
    \/ Tick

SpecExport == InitExport /\ [][NextExport]_vars

(***************************************************************************)
(* export_regions of either module, under every OCR outcome                *)
(***************************************************************************)
\* the regions of the calls, and what may go wrong with a region besides OCR
OcrRegion == [coords : {<<0, 0, 6, 6>>}, mode : Modes]
OcrRegionLists == UNION {[1..n -> OcrRegion] : n \in 0..MaxExportRegions}
OcrOutcomeSeqs(regs) ==
    {o \in [1..Len(regs) -> {"ok", "write_raises"}] :
        \A k \in 1..Len(regs) : regs[k].mode = "foto" => o[k] = "ok"}

\* OCR runs on the crops of text regions only
OcrSeqs(regs) ==
    {r \in [1..Len(regs) -> OcrResults] :
        \A k \in 1..Len(regs) :
            \/ regs[k].mode = "text" /\ (r[k].raised => r[k].text = <<>>)
            \/ r[k] = NoOcr(regs)[k]}

OcrCalls ==
    /\ pc = "caller"
    /\ \E module \in ExportModules, regs \in OcrRegionLists, available \in BOOLEAN :
          \E outcomes \in OcrOutcomeSeqs(regs), ocr \in OcrSeqs(regs) :
             ExportCallIn(module, PathA, regs, FALSE, outcomes, available, ocr)

NextOcr == OcrCalls \/ Tick

SpecOcr == InitExport /\ [][NextOcr]_vars

(***************************************************************************)
(* The pure helpers, called directly as the tests do                       *)
(***************************************************************************)
\* the arguments of the calls
CoordValues == {-MaxCoord, -1, 0, 1, MaxCoord}
ScaleValues == {Rat(n, d) : n \in 0..MaxScaleNum, d \in 1..MaxScaleNum}

\* utils.py transform_coords called with (coords, scale_factor)
TransformCall(coords, scale_factor) ==
    /\ pc = "caller"
    /\ pc' = "returned"
    /\ ret' = [fn |-> "transform_coords", coords |-> coords,
               scale_factor |-> scale_factor,
               raised |-> TransformRaises(scale_factor),
               result |-> IF TransformRaises(scale_factor) THEN None
                          ELSE TransformCoords(coords, scale_factor)]
    /\ last' = Last("transform_coords", ~TransformRaises(scale_factor))
    /\ UNCHANGED <<guiVars, flowVars, tmp_files, file_text, tmp_exists, opened, clock>>

\* ImageSelectorGUI.compute_scale of gui.py or of server.py called with
\* (img_width, img_height, canvas_width, canvas_height)
ScaleCall(module, iw, ih, cw, ch) ==
    /\ pc = "caller"
    /\ pc' = "returned"
    /\ ret' = [fn |-> "compute_scale", module |-> module,
               img_width |-> iw, img_height |-> ih,
               canvas_width |-> cw, canvas_height |-> ch,
               result |-> IF module = "gui" THEN ComputeScale(iw, ih, cw, ch)
                          ELSE ServerComputeScale(iw, ih, cw, ch)]
    /\ last' = Last("compute_scale", TRUE)
    /\ UNCHANGED <<guiVars, flowVars, tmp_files, file_text, tmp_exists, opened, clock>>

\* pdf_utils.py extract_image_from_pdf called with pdf_path, with PyMuPDF
\* imported or not, and with the library call that fails
ExtractCall(pdf_path, fitz, fails) ==
    LET x == ExtractImageFromPdf(pdf_path, fitz, fails)
    IN /\ pc = "caller"
       /\ pc' = "returned"
       /\ tmp_files' = tmp_files \cup x.written
       /\ tmp_exists' = (tmp_exists \/ x.written # {})
       /\ ret' = [fn |-> "extract_image_from_pdf", pdf_path |-> pdf_path,
                  fitz |-> fitz, fails |-> fails, before |-> tmp_files,
                  raised |-> x.raised, result |-> x.result]
       /\ last' = IF x.raised THEN LastExc("extract_image_from_pdf", None, "ImportError")
                   ELSE Last("extract_image_from_pdf", x.result # None)
       /\ UNCHANGED <<guiVars, flowVars, file_text, opened, clock>>

NextCalls ==
    \/ \E coords \in [1..4 -> CoordValues], s \in ScaleValues : TransformCall(coords, s)
    \/ \E module \in {"gui", "server"}, iw \in 1..MaxDim, ih \in 1..MaxDim,
          cw \in 1..MaxDim, ch \in 1..MaxDim : ScaleCall(module, iw, ih, cw, ch)
    \/ \E p \in PdfPaths, fitz \in BOOLEAN, fails \in PdfFailures :
          ExtractCall(p, fitz, fails)

SpecCalls == InitExport /\ [][NextCalls]_vars

(***************************************************************************)
(* cleanup_tmp_dir called directly, once and again                         *)
(***************************************************************************)
\* what the temp directory may hold before the first call
DirEntries == [kind : {"file", "locked", "dir"}, nr : 1..MaxPerKind]

\* utils.py cleanup_tmp_dir; ret counts the calls and keeps what the call found
CleanupCall ==
    /\ pc \in {"caller", "returned"}
    /\ IF ret = None THEN TRUE ELSE ret.calls < MaxCleanups
    /\ pc' = "returned"
    /\ tmp_exists' = TRUE
    /\ \E kept \in Cleanups(tmp_files) :
          /\ tmp_files' = kept
          /\ file_text' = {t \in file_text : t.file \in kept}
    /\ ret' = [fn |-> "cleanup_tmp_dir",
               calls |-> IF ret = None THEN 1 ELSE ret.calls + 1,
               before |-> tmp_files, existed |-> tmp_exists]
    /\ last' = Last("cleanup_tmp_dir", TRUE)
    /\ UNCHANGED <<guiVars, flowVars, opened, clock>>

InitCleanup ==
    /\ pc = "caller"
    /\ create_ui = FALSE
    /\ images_data = <<>>
    /\ current_image_index = 0
    /\ result_ready = FALSE
    /\ image = FALSE
    /\ start = None
    /\ pointer = None
    /\ current_rect = NoRect
    /\ current_selection = None
    /\ selection_mode = "foto"
    /\ canvas = {}
    /\ region_listbox = <<>>
    /\ canvas_size \in CanvasSizes
    /\ tmp_exists \in BOOLEAN
    /\ tmp_files \in IF tmp_exists THEN SUBSET DirEntries ELSE {{}}
    /\ file_text = {}
    /\ opened = {}
    /\ clock = 0
    /\ export_idx = 0
    /\ all_exported_files = <<>>
    /\ total_exported = 0
    /\ response = ""
    /\ ret = None
    /\ last = Last("init", TRUE)

NextCleanup == CleanupCall

SpecCleanup == InitCleanup /\ [][NextCleanup]_vars

(***************************************************************************)
(* The tool list_exported_regions                                          *)
(***************************************************************************)
\* the characters of the file names, in the order of their code points
Alphabet ==
    <<".", "0", "1", "2", "3", "4", "5", "6", "7", "8", "9", "_",
      "a", "b", "c", "d", "e", "f", "g", "h", "i", "j", "k", "l", "m",
      "n", "o", "p", "q", "r", "s", "t", "u", "v", "w", "x", "y", "z">>
Ord(c) == CHOOSE i \in 1..Len(Alphabet) : Alphabet[i] = c

\* the characters of the words file names are made of
Spell(w) ==
    CASE w = "a" -> <<"a">>
      [] w = "b" -> <<"b">>
      [] w = "old" -> <<"o", "l", "d">>
      [] w = "bad" -> <<"b", "a", "d">>
      [] w = "scan" -> <<"s", "c", "a", "n">>
      [] w = "plain" -> <<"p", "l", "a", "i", "n">>
      [] w = "foto" -> <<"f", "o", "t", "o">>
      [] w = "text" -> <<"t", "e", "x", "t">>
      [] w = "png" -> <<"p", "n", "g">>
      [] w = "txt" -> <<"t", "x", "t">>
      [] w = "region" -> <<"r", "e", "g", "i", "o", "n">>
      [] w = "extracted" -> <<"e", "x", "t", "r", "a", "c", "t", "e", "d">>
      [] w = "rendered" -> <<"r", "e", "n", "d", "e", "r", "e", "d">>

\* the name os.listdir reports for a file of the temp directory, as a string
\* of characters: {base}_{timestamp}_region{NN}_{mode}.{ext} for an exported
\* file, {base}_extracted.png or {base}_rendered.png for a PDF image
NameChars(f) ==
    LET digits(ds) == [k \in 1..Len(ds) |-> Alphabet[ds[k] + 2]]
    IN IF "tag" \in DOMAIN f
       THEN Spell(f.stem) \o <<"_">> \o Spell(f.tag) \o <<".">> \o Spell(f.ext)
       ELSE Spell(f.base) \o <<"_">> \o digits(Digits(f.ts)) \o <<"_">>
            \o Spell("region") \o digits(f.nn) \o <<"_">> \o Spell(f.mode)
            \o <<".">> \o Spell(f.ext)

\* s < t for Python strings: by code point, a proper prefix comes first
RECURSIVE StrLess(_, _)
StrLess(s, t) ==
    IF t = <<>> THEN FALSE
    ELSE IF s = <<>> THEN TRUE
    ELSE IF Head(s) # Head(t) THEN Ord(Head(s)) < Ord(Head(t))
    ELSE StrLess(Tail(s), Tail(t))

\* list.sort() over the names of a set of files
RECURSIVE SortedFiles(_)
SortedFiles(files) ==
    IF files = {} THEN <<>>
    ELSE LET m == CHOOSE x \in files :
                     \A y \in files \ {x} : StrLess(NameChars(x), NameChars(y))
         IN <<m>> \o SortedFiles(files \ {m})

\* server.py call_tool lines 1110-1116: the names in the temp directory that
\* end in .png or .txt, sorted
ListedFiles(files) ==
    SortedFiles({f \in files : "ext" \in DOMAIN f /\ f.ext \in {"png", "txt"}})

\* server.py call_tool, list_exported_regions, called after the session
ListExportedRegions ==
    /\ pc = "done"
    /\ response' = "Exportierte Dateien"
    /\ tmp_exists' = TRUE
    /\ last' = LastArg("list_exported_regions", ListedFiles(tmp_files) # <<>>,
                       ListedFiles(tmp_files))
    /\ UNCHANGED <<pc, guiVars, tmp_files, file_text, opened, clock, ret,
                   export_idx, all_exported_files, total_exported>>

(***************************************************************************)
(* A session in which the user also resizes the window, adds the file that *)
(* is already loaded a second time, and works on a PDF with an embedded    *)
(* image                                                                   *)
(***************************************************************************)
\* the canvas sizes the window takes in such a session: the initial one, a
\* narrower one, and the 1x1 a canvas reports while it is not laid out
ResizeSizes == CanvasSizes \cup {<<10, 10>>, <<1, 1>>}

NextResize ==
    \/ \E p \in {PathA, PathPdfScan} : CallToolSelect(p)
    \/ \E sz \in ResizeSizes : ResizeWindow(sz)
    \/ \E p \in DownPoints : OnMouseDown(p)
    \/ OnMouseDrag(<<0, 12>>)
    \/ \E p \in DownPoints \cup {<<0, 12>>} : OnMouseUp(p)
    \/ SaveCurrentSelection
    \/ RotateImage(90)
    \/ \E p \in {PathA, PathPdfScan} : AddImage(p)
    \/ \E i \in 0..(MaxImages - 1) : OnImageSelect(i)
    \/ \E c \in BOOLEAN : FinishSelection(c)
    \/ ExportStep
    \/ ExportFinish
    \/ Tick
    \/ ListExportedRegions

SpecResize == Init /\ [][NextResize]_vars

(***************************************************************************)
(* Properties                                                              *)
(***************************************************************************)
\* C1: a rotate_image step taken while the current image has a loaded pixel
\* buffer leaves the current image with zero saved regions and with no
\* pending selection (current_selection and current_rect are both None),
\* however many regions were saved and whether or not a selection was pending.
C1_RotateClears ==
    [][(last'.op = "rotate" /\ original_image) =>
          /\ images_data'[current_image_index' + 1].regions = <<>>
          /\ current_selection' = None
          /\ current_rect' = NoRect]_vars

\* a rotation in the window that found one saved region and a pending selection
C1_Witness ==
    /\ pc = "gui"
    /\ last.op = "rotate" /\ last.ok
    /\ last.arg[1] = 1 /\ last.arg[2]
    /\ regions = <<>> /\ current_selection = None /\ current_rect = NoRect

\* C2: result_ready becomes true only by a confirmed finish_selection issued
\* with at least one saved region over all images; finish_selection with no
\* region at all, or with the confirmation declined, leaves result_ready
\* false and the session open; and once the mainloop has ended run() has
\* returned the list of image entries if result_ready is true, None otherwise.
C2_FinishOnly ==
    [][/\ (result_ready' /\ ~result_ready) =>
             /\ last'.op = "finish" /\ last'.arg = TRUE
             /\ TotalRegions(images_data) >= 1
       /\ (last'.op = "finish" /\ (TotalRegions(images_data) = 0 \/ last'.arg = FALSE)) =>
             /\ result_ready' = FALSE
             /\ pc' = "gui"
             /\ ret' = None
       /\ (pc = "gui" /\ pc' # "gui") =>
             IF result_ready' THEN ret' = images_data' /\ ret' # None
             ELSE ret' = None]_vars

\* a confirmed finish with a saved region: run() has returned the entries
C2_Witness ==
    /\ pc = "export"
    /\ last.op = "finish" /\ last.arg = TRUE
    /\ result_ready
    /\ TotalRegions(images_data) >= 1
    /\ ret = images_data

\* C3: a close of the window that the user confirms ends the session as
\* cancelled whatever regions were saved: run() returns None, no file is
\* written and the answer is the "no export" message; a close the user
\* declines leaves the session open with images, regions and pending
\* selection unchanged.
C3_CloseCancels ==
    [][/\ (last'.op = "close" /\ last'.ok) =>
             /\ ret' = None
             /\ pc' = "done"
             /\ tmp_files' = tmp_files
             /\ all_exported_files' = <<>> /\ total_exported' = 0
             /\ response' = "Auswahl abgebrochen - keine Bereiche exportiert"
       /\ (last'.op = "close" /\ ~last'.ok) =>
             /\ pc' = "gui"
             /\ UNCHANGED <<images_data, current_image_index, current_selection,
                            current_rect, canvas, region_listbox, result_ready>>]_vars

\* a confirmed close with a saved region: cancelled, nothing exported
C3_Witness ==
    /\ pc = "done"
    /\ last.op = "close" /\ last.ok
    /\ TotalRegions(images_data) >= 1
    /\ ret = None
    /\ response = "Auswahl abgebrochen - keine Bereiche exportiert"

\* C4: while the window is open every pending selection and every saved
\* region of every image has x2 - x1 > 5 and y2 - y1 > 5 (so x1 < x2 and
\* y1 < y2), and a mouse-up whose rectangle measures 5 pixels or less in
\* either dimension leaves no pending selection.
C4_SelectionsWellFormed ==
    [][/\ pc' = "gui" =>
             /\ \A k \in 1..Len(images_data') :
                   \A j \in 1..Len(images_data'[k].regions) :
                      LET c == images_data'[k].regions[j].coords
                      IN c[3] - c[1] > 5 /\ c[4] - c[2] > 5
             /\ current_selection' # None =>
                   /\ current_selection'[3] - current_selection'[1] > 5
                   /\ current_selection'[4] - current_selection'[2] > 5
       /\ (/\ last'.op = "mouse_up"
           /\ last'.arg # None
           /\ (last'.arg[3] - last'.arg[1] <= 5 \/ last'.arg[4] - last'.arg[2] <= 5)) =>
             current_selection' = None]_vars

\* a release 5 pixels wide and 6 high, after a region was saved: rejected
C4_Witness ==
    /\ pc = "gui"
    /\ last.op = "mouse_up" /\ ~last.ok
    /\ last.arg # None
    /\ last.arg[3] - last.arg[1] = 5 /\ last.arg[4] - last.arg[2] = 6
    /\ current_selection = None
    /\ Len(regions) >= 1

\* C5: save_current_selection with no pending selection changes no image's
\* regions; with a pending selection it appends exactly one region to the
\* current image only, with the coordinates of the pending selection and the
\* active mode, the dashed preview rectangle becomes a solid rectangle on the
\* canvas, and no pending selection is left.
C5_SaveAppendsOne ==
    [][last'.op = "save" =>
          IF current_selection = None
          THEN images_data' = images_data
          ELSE /\ Len(images_data') = Len(images_data)
               /\ \A k \in 1..Len(images_data) :
                     k # Cur => images_data'[k] = images_data[k]
               /\ Len(images_data'[Cur].regions) = Len(regions) + 1
               /\ SubSeq(images_data'[Cur].regions, 1, Len(regions)) = regions
               /\ images_data'[Cur].regions[Len(regions) + 1].coords = current_selection
               /\ images_data'[Cur].regions[Len(regions) + 1].mode = selection_mode
               /\ \E it \in canvas' : it.coords = current_selection /\ ~it.dash
               /\ \A it \in canvas' : ~it.dash
               /\ current_selection' = None
               /\ current_rect' = NoRect]_vars

\* C6: a switch to a valid index that keeps the session open discards the
\* pending selection, makes the index the active one, keeps the saved regions
\* of every image, and shows exactly the regions saved for that image in the
\* region list and as rectangles on the canvas; a switch to an index outside
\* the list changes nothing.
C6_SwitchReloads ==
    [][(last'.op = "switch" /\ pc' = "gui") =>
          IF last'.arg \in 0..(Len(images_data) - 1)
          THEN /\ current_selection' = None
               /\ current_rect' = NoRect
               /\ current_image_index' = last'.arg
               /\ Len(images_data') = Len(images_data)
               /\ \A k \in 1..Len(images_data) :
                     /\ Len(images_data'[k].regions) = Len(images_data[k].regions)
                     /\ \A j \in 1..Len(images_data[k].regions) :
                           /\ images_data'[k].regions[j].coords =
                                 images_data[k].regions[j].coords
                           /\ images_data'[k].regions[j].mode =
                                 images_data[k].regions[j].mode
               /\ LET rs == images_data[last'.arg + 1].regions
                  IN /\ Len(region_listbox') = Len(rs)
                     /\ \A j \in 1..Len(rs) :
                           /\ region_listbox'[j].n = j
                           /\ region_listbox'[j].mode = rs[j].mode
                     /\ {it.coords : it \in canvas'} = {rs[j].coords : j \in 1..Len(rs)}
          ELSE UNCHANGED <<images_data, current_image_index, current_selection,
                          current_rect, canvas, region_listbox, image, pc>>]_vars

\* C7: a confirmed clear_regions on an image with regions empties the region
\* list of the current image, removes their rectangles from the canvas and
\* leaves the entries of all other images unchanged; with no regions on the
\* current image, or declined, it changes no region of any image.
C7_ClearCurrentOnly ==
    [][last'.op = "clear" =>
          IF regions # <<>> /\ last'.arg = TRUE
          THEN /\ Len(images_data') = Len(images_data)
               /\ images_data'[Cur].regions = <<>>
               /\ \A k \in 1..Len(images_data) :
                     k # Cur => images_data'[k] = images_data[k]
               /\ \A j \in 1..Len(regions) :
                     \A it \in canvas' : it.id # regions[j].rect_id
               /\ region_listbox' = <<>>
          ELSE /\ images_data' = images_data
               /\ canvas' = canvas]_vars

\* a confirmed clear on the second image while the first keeps its region
C7_Witness ==
    /\ pc = "gui"
    /\ last.op = "clear" /\ last.ok
    /\ Len(images_data) = 2
    /\ current_image_index = 1
    /\ regions = <<>>
    /\ Len(images_data[1].regions) = 1

\* C8: a call of export_regions with N >= 0 regions of any modes over a valid
\* image in which no crop or write fails returns success true,
\* exported_count = N and N descriptors; the k-th descriptor carries region
\* number k and files named {base}_{timestamp}_region{kk}_{mode}.png (and the
\* matching .txt in text mode) with the one timestamp of the call; exactly
\* these files are written, so none for N = 0.
C8_ExportAllNamed ==
    (/\ pc = "returned"
     /\ (ret.image_object \/ ret.image_path = PathA)
     /\ \A k \in 1..Len(ret.regions) : ret.outcomes[k] = "ok") =>
        LET N == Len(ret.regions)
            Png(k) == [base |-> ret.image_path.stem, ts |-> ret.now,
                       nn |-> <<k \div 10, k % 10>>,
                       mode |-> ret.regions[k].mode, ext |-> "png"]
            Txt(k) == [Png(k) EXCEPT !.ext = "txt"]
            Group(k) == IF ret.regions[k].mode = "foto"
                        THEN {Png(k)} ELSE {Png(k), Txt(k)}
        IN /\ ~ret.raised
           /\ ret.result.success = TRUE
           /\ ret.result.exported_count = N
           /\ Len(ret.result.files) = N
           /\ \A k \in 1..N :
                 ret.result.files[k] =
                    IF ret.regions[k].mode = "foto"
                    THEN [type |-> "foto", region |-> k, file |-> Png(k)]
                    ELSE [type |-> "text", region |-> k,
                          image_file |-> Png(k), text_file |-> Txt(k)]
           /\ tmp_files = ret.before \cup UNION {Group(k) : k \in 1..N}
           /\ N = 0 => tmp_files = ret.before

\* a foto and a text region exported without failure
C8_Witness ==
    /\ pc = "returned"
    /\ ~ret.raised
    /\ Len(ret.regions) = 2
    /\ ret.regions[1].mode = "foto" /\ ret.regions[2].mode = "text"
    /\ ret.outcomes = <<"ok", "ok">>
    /\ ret.result.exported_count = 2

C10_MissingSourceRaises ==
    pc = "returned" =>
        /\ (~ret.image_object /\ ret.image_path = PathMissing) =>
              /\ ret.raised
              /\ tmp_files = ret.before
        /\ ret.image_object =>
              /\ ~ret.raised
              /\ ret.image_path \notin opened

\* the empty region list on a missing path without a buffer: raised
C10_Witness ==
    /\ pc = "returned"
    /\ ~ret.image_object
    /\ ret.image_path = PathMissing
    /\ ret.regions = <<>>
    /\ ret.raised
    /\ last.op = "export_regions"

\* C11: whatever OCR does with the crop of a text region whose crop and
\* writes succeed, export_regions writes the crop PNG and the text file,
\* lists the region as exported, and the text file ends with the recognized
\* (stripped) text, or with the placeholder of the outcome: nothing
\* recognized, OCR raised, OCR dependency missing.
C11_OcrDegrades ==
    (pc = "returned" /\ ~ret.raised) =>
        \A k \in 1..Len(ret.regions) :
            (ret.regions[k].mode = "text" /\ ret.outcomes[k] = "ok") =>
                LET info == FormatExportPaths(ret.image_path.stem, ret.now, k, "text")
                    r == ret.ocr[k]
                    expect == IF ~ret.available THEN "unavailable"
                              ELSE IF r.raised THEN "error"
                              ELSE IF \A c \in 1..Len(r.text) : r.text[c] = " "
                              THEN "none" ELSE "text"
                IN /\ {info.image_file, info.text_file} \subseteq tmp_files
                   /\ \E j \in 1..Len(ret.result.files) : ret.result.files[j] = info
                   /\ \E t \in file_text :
                        /\ t.file = info.text_file
                        /\ t.content # None
                        /\ t.content.ocr_text.kind = expect
                        /\ expect = "text" =>
                             /\ t.content.ocr_text.text # <<>>
                             /\ Head(t.content.ocr_text.text) # " "
                             /\ t.content.ocr_text.text[Len(t.content.ocr_text.text)] # " "

\* C12: select_image_regions without image_path, or with a path that does
\* not exist once a relative path is joined to the working directory,
\* answers with an error text, constructs no GUI (no entry, no file opened),
\* and leaves the temp directory as it was: no cleanup, no export.
C12_BadPathRejected ==
    [][(/\ last'.op = "call_tool"
        /\ \/ last'.arg[1] = None
           \/ LET p == ResolvePath(last'.arg[1])
              IN IF p.dir = "tmp" THEN DirEntry(p) \notin tmp_files
                 ELSE p \notin ExistingPaths)
       => /\ response' \in {"Fehler: image_path erforderlich",
                            "Fehler: Bild nicht gefunden"}
          /\ (response' = "Fehler: image_path erforderlich") = (last'.arg[1] = None)
          /\ pc' = "done"
          /\ images_data' = <<>>
          /\ image' = FALSE
          /\ UNCHANGED <<tmp_files, file_text, opened, all_exported_files,
                         total_exported>>]_vars

\* a relative path that resolves to no file was rejected with files in tmp
C12_Witness ==
    /\ last.op = "call_tool"
    /\ last.arg = <<PathRelMissing>>
    /\ pc = "done"
    /\ OldFile \in tmp_files

\* C13: whenever an exception is raised while select_image_regions constructs
\* the GUI, runs it, transforms the coordinates or exports, the call ends
\* with the one error text response and the exception does not reach the
\* protocol caller.
C13_ExceptionsAnswered ==
    [][(create_ui' /\ last'.exc # "")
       => /\ pc' = "done"
          /\ response = ""
          /\ response' = "Fehler beim Oeffnen der GUI"]_vars

\* the handler of a failed crop raised in the middle of the export and the
\* call answered with the error text
C13_Witness ==
    /\ last.op = "export_step"
    /\ last.exc = "OSError"
    /\ pc = "done"
    /\ response = "Fehler beim Oeffnen der GUI"

\* C14: for s > 0, transform_coords returns the four quotients x/s, each
\* truncated toward zero (the integer q of the sign of x, or 0, with
\* |q| <= |x/s| < |q| + 1); for s = 0 it raises and returns nothing.
C14_TransformTruncates ==
    (pc = "returned" /\ ret.fn = "transform_coords") =>
        LET n == ret.scale_factor[1]
            d == ret.scale_factor[2]
        IN IF n = 0
           THEN ret.raised /\ ret.result = None
           ELSE /\ ~ret.raised
                /\ Len(ret.result) = 4
                /\ \A k \in 1..4 :
                     LET x == ret.coords[k]
                         q == ret.result[k]
                     IN IF x >= 0
                        THEN q >= 0 /\ q * n <= x * d /\ x * d < (q + 1) * n
                        ELSE q <= 0 /\ q * n >= x * d /\ x * d > (q - 1) * n

\* a negative and a positive coordinate were divided by 4/3: -7 / (4/3) is
\* -5.25 and gives -5, 7 / (4/3) gives 5
C14_Witness ==
    /\ pc = "returned"
    /\ ret.fn = "transform_coords"
    /\ ret.scale_factor = <<4, 3>>
    /\ ret.coords = <<-7, -1, 1, 7>>
    /\ ret.result = <<-5, 0, 0, 5>>

\* C15: for positive dimensions, compute_scale of gui.py returns the least of
\* canvas_w/image_w, canvas_h/image_h and 1.25, which lies in (0, 1.25]; it is
\* exactly 1.25 when the image enlarged by 1.25 still fits the canvas, and
\* below 1.0 when the image is larger than the canvas.
C15_ScaleIsMin ==
    (pc = "returned" /\ ret.fn = "compute_scale" /\ ret.module = "gui") =>
        LET r == ret.result
            sx == <<ret.canvas_width, ret.img_width>>
            sy == <<ret.canvas_height, ret.img_height>>
        IN /\ r[2] > 0
           /\ r[1] * sx[2] <= sx[1] * r[2]
           /\ r[1] * sy[2] <= sy[1] * r[2]
           /\ r[1] * 4 <= 5 * r[2]
           /\ \/ r[1] * sx[2] = sx[1] * r[2]
              \/ r[1] * sy[2] = sy[1] * r[2]
              \/ r[1] * 4 = 5 * r[2]
           /\ r[1] > 0
           /\ (5 * ret.img_width <= 4 * ret.canvas_width
                 /\ 5 * ret.img_height <= 4 * ret.canvas_height) => r = <<5, 4>>
           /\ (ret.img_width > ret.canvas_width
                 \/ ret.img_height > ret.canvas_height) => r[1] < r[2]

\* a 4x4 image on a 5x6 canvas got exactly 1.25
C15_Witness ==
    /\ pc = "returned"
    /\ ret.fn = "compute_scale"
    /\ ret.module = "gui"
    /\ ret.img_width = 4 /\ ret.img_height = 4
    /\ ret.canvas_width = 5 /\ ret.canvas_height = 6
    /\ ret.result = <<5, 4>>

\* C16: compute_scale of server.py never upscales: for positive dimensions
\* the result is in (0, 1.0], and it is exactly 1.0 for an image smaller than
\* the canvas.
C16_ServerNeverUpscales ==
    (pc = "returned" /\ ret.fn = "compute_scale" /\ ret.module = "server") =>
        /\ ret.result[1] > 0 /\ ret.result[2] > 0
        /\ ret.result[1] <= ret.result[2]
        /\ (ret.img_width < ret.canvas_width /\ ret.img_height < ret.canvas_height)
              => ret.result = <<1, 1>>

\* C17: rotate_image(90) and rotate_image(-90) turn a loaded image of
\* dimensions (w, h) into one of dimensions (h, w), rotate_image(180) keeps
\* (w, h), three more rotate_image(90) after one give (w, h) again, and on an
\* entry whose pixel buffer is unset rotate_image changes nothing and does not
\* raise.
C17_RotateDims ==
    [][last'.op = "rotate" =>
          LET e == images_data[Cur]
              r == images_data'[Cur]
              angle == last'.arg[3]
          IN IF e.original_image
             THEN /\ r.original_image
                  /\ r.size = IF angle = 180 THEN e.size ELSE <<e.size[2], e.size[1]>>
                  /\ angle = 90 =>
                       Rotated(Rotated(Rotated(r.size, 90), 90), 90) = e.size
                  /\ last'.exc = ""
             ELSE /\ last'.exc = ""
                  /\ UNCHANGED <<pc, images_data, current_image_index, image,
                                 current_selection, current_rect, canvas,
                                 region_listbox, response>>]_vars

\* the 40x10 image was turned by 90 degrees without UI and is 10x40
C17_Witness ==
    /\ pc = "headless"
    /\ last.op = "rotate" /\ last.ok /\ last.arg[3] = 90
    /\ images_data[Cur].original_path = PathA
    /\ images_data[Cur].size = <<10, 40>>

C19_ExtractNeverRaises ==
    (pc = "returned" /\ ret.fn = "extract_image_from_pdf") =>
        /\ ~ret.raised
        /\ \/ ret.result = None
           \/ /\ ret.result \in tmp_files
              /\ ret.result.dir = "tmp"
              /\ ret.result.stem = ret.pdf_path.stem
              /\ ret.result.ext = "png"
              /\ ret.result.tag = IF ret.pdf_path.stem = "scan"
                                  THEN "extracted" ELSE "rendered"

\* C20: adding a PDF whose extraction yields no result fails and leaves the
\* image list (every entry with its regions) and the active index as they
\* were; a successful add appends exactly one entry at the end, with an unset
\* pixel buffer, scale factor 1.0 and no regions, and changes neither the
\* active index, nor an existing entry, nor the pending selection.
C20_AddAppendsOne ==
    [][(last'.op = "add_image" /\ last'.arg[1] # None) =>
          IF last'.arg[1] = PathPdfEmpty
          THEN /\ ~last'.ok
               /\ UNCHANGED <<images_data, current_image_index>>
          ELSE /\ last'.ok
               /\ Len(images_data') = Len(images_data) + 1
               /\ SubSeq(images_data', 1, Len(images_data)) = images_data
               /\ LET e == images_data'[Len(images_data')]
                  IN /\ e.original_path = last'.arg[1]
                     /\ e.original_image = FALSE
                     /\ e.scale_factor = <<1, 1>>
                     /\ e.regions = <<>>
               /\ UNCHANGED <<current_image_index, current_selection, current_rect>>]_vars

\* the add of the PDF without pages failed while a region was saved and a
\* selection was pending
C20_Witness ==
    /\ pc = "gui"
    /\ last.op = "add_image"
    /\ last.arg = <<PathPdfEmpty>>
    /\ ~last.ok
    /\ Len(images_data) = 1
    /\ Len(regions) = 1
    /\ current_selection # None

\* C21: the scale_factor of an image entry never changes while that entry has
\* saved regions: in every step, an entry that has saved regions before and
\* after the step has the same scale_factor before and after it, so that at
\* export time the regions' display coordinates were drawn under the stored
\* scale.
C21_ScaleStable ==
    [][\A i \in 1..Len(images_data) :
           (/\ i <= Len(images_data')
            /\ images_data[i].regions # <<>>
            /\ images_data'[i].regions # <<>>)
               => images_data'[i].scale_factor = images_data[i].scale_factor]_vars

\* C22: within one select-and-export call no two exported regions, of the
\* same image or of different loaded images, are written to the same file
\* path: the descriptors collected from the export_regions calls name
\* pairwise disjoint sets of files.
C22_NoOverwrite ==
    \A i, j \in 1..Len(all_exported_files) :
        i # j => InfoFiles(all_exported_files[i])
                     \cap InfoFiles(all_exported_files[j]) = {}

\* C23: an input file that passed the existence check of select_image_regions
\* still exists when the controller opens it: after a call_tool step that
\* found the path and constructed the controller, the file the path names is
\* on disk, also when the path lies directly inside the temp directory.
C23_InputSurvives ==
    [][(last'.op = "call_tool" /\ last'.ok)
          => LET p == ResolvePath(last'.arg[1])
             IN IF p.dir = "tmp" THEN DirEntry(p) \in tmp_files'
                ELSE p \in ExistingPaths]_vars

\* C24: whenever a pending selection exists in the window (current_selection
\* is not None), current_rect refers to a preview rectangle that is still
\* drawn on the canvas, with the corners of the selection.
C24_PreviewDrawn ==
    (pc = "gui" /\ current_selection # None)
        => \E it \in canvas : it.id = current_rect /\ it.coords = current_selection

\* C25: within one controller session the temp directory is emptied once, at
\* construction and before the input is added or extracted into it: the
\* files extracted from the input are there after the construction step, and
\* no later step of the controller, the extractor or the exporter removes a
\* file, so the set of file names in the temp directory only grows.
C25_TmpGrows ==
    [][IF last'.op \in {"call_tool", "construct"}
       THEN last'.ok =>
               LET p == IF last'.op = "call_tool"
                        THEN ResolvePath(last'.arg[1])
                        ELSE images_data'[1].original_path
               IN /\ IsPdf(p) => SessionExtract(p).written \subseteq tmp_files'
                  /\ tmp_files' \cap {f \in tmp_files : Kind(f) = "file"}
                         \subseteq SessionExtract(p).written
       ELSE tmp_files \subseteq tmp_files']_vars

\* a session on a PDF has ended: the old file is gone, the extracted image
\* and an exported region are in the temp directory
C25_Witness ==
    /\ pc = "done"
    /\ OldFile \notin tmp_files
    /\ \E f \in tmp_files : "tag" \in DOMAIN f
    /\ \E f \in tmp_files : "base" \in DOMAIN f

\* C26: in every reachable state the scale_factor of every image entry is
\* strictly positive: 1.0 for an entry of the window whose buffer was never
\* loaded, and otherwise compute_scale of the entry's current dimensions for
\* a canvas size the controller uses (1600x1280 when the canvas reports 1 or
\* less); and the export flow never ends in the zero-scale rejection of
\* transform_coords.
C26_ScalePositive ==
    /\ \A i \in 1..Len(images_data) :
          LET e == images_data[i]
          IN /\ e.scale_factor[1] > 0 /\ e.scale_factor[2] > 0
             /\ (create_ui /\ ~e.original_image) => e.scale_factor = Rat(1, 1)
             /\ e.original_image =>
                   \E sz \in ResizeSizes :
                      e.scale_factor =
                         ComputeScale(e.size[1], e.size[2],
                             IF sz[1] <= 1 THEN FallbackCanvasWidth ELSE sz[1],
                             IF sz[2] <= 1 THEN FallbackCanvasHeight ELSE sz[2])
    /\ ~(last.op = "export_step" /\ last.exc = "ValueError")

\* the regions of an image displayed while the canvas reported 1x1 (scale
\* from the fallback size) have been transformed and exported
C26_Witness ==
    /\ pc = "done"
    /\ canvas_size = <<1, 1>>
    /\ total_exported > 0
    /\ \E i \in 1..Len(images_data) :
          /\ images_data[i].regions # <<>>
          /\ images_data[i].scale_factor = Rat(5, 4)
          /\ images_data[i].size = <<40, 10>>

\* C27: in every reachable state of a session with a window, an image entry
\* that has at least one saved region has a loaded pixel buffer
\* (original_image is set), and the export step has not opened any
\* original_path again: it crops from the buffer of the entry.
C27_RegionsHaveBuffer ==
    create_ui =>
        /\ \A i \in 1..Len(images_data) :
              images_data[i].regions # <<>> => images_data[i].original_image
        /\ opened = {}

\* the regions saved on the image extracted from a PDF have been exported
\* without opening a file
C27_Witness ==
    /\ pc = "done"
    /\ total_exported > 0
    /\ opened = {}
    /\ \E i \in 1..Len(images_data) :
          /\ IsPdf(images_data[i].original_path)
          /\ images_data[i].regions # <<>>
          /\ images_data[i].original_image

\* C28: the files a call of export_regions leaves in the output directory are
\* exactly those named by its returned descriptors: every listed file is on
\* disk, and every file the directory gained during the call is listed, so a
\* region whose processing failed leaves no file behind.
C28_FilesAreListed ==
    (pc = "returned" /\ ~ret.raised) =>
        LET listed == UNION {InfoFiles(ret.result.files[k]) :
                                k \in 1..Len(ret.result.files)}
        IN /\ listed \subseteq tmp_files
           /\ (tmp_files \ ret.before) \subseteq listed

\* C29: every file name returned by list_exported_regions names a file the
\* exporter wrote for a saved region, never an intermediate image extracted
\* or rendered from a PDF into the temp directory, and the names are in
\* lexicographic order.
C29_ListsExports ==
    last.op = "list_exported_regions" =>
        /\ \A k \in 1..Len(last.arg) :
              /\ "tag" \notin DOMAIN last.arg[k]
              /\ last.arg[k] = FileName(last.arg[k].base, last.arg[k].ts,
                                        last.arg[k].nn[2], last.arg[k].mode,
                                        last.arg[k].ext)
        /\ \A k \in 1..(Len(last.arg) - 1) :
              StrLess(NameChars(last.arg[k]), NameChars(last.arg[k + 1]))

\* C30: for every image with positive width w and height h and every canvas
\* size the controller uses (both sides above 1), the display buffer
\* dimensions int(w * scale) and int(h * scale), with scale =
\* compute_scale(w, h, canvas_w, canvas_h), are both at least 1.
C30_DisplayDims ==
    (/\ pc = "returned"
     /\ ret.fn = "compute_scale"
     /\ ret.module = "gui"
     /\ ret.img_width > 0 /\ ret.img_height > 0
     /\ ret.canvas_width > 1 /\ ret.canvas_height > 1)
        => /\ Trunc(ret.img_width * ret.result[1], ret.result[2]) >= 1
           /\ Trunc(ret.img_height * ret.result[1], ret.result[2]) >= 1

====
